---- MODULE Spec2Model ----
(***************************************************************************)
(* Model of the segment validation and reconciliation engine of            *)
(* dnd_transcriber: the per-segment repair loop of                         *)
(* D_DTranscriptionPipeline._validate_segments with                        *)
(* TranscriptionValidator.validate_segment, and the deduplication pass     *)
(* D_DTranscriptionPipeline._deduplicate_segments.                         *)
(*                                                                         *)
(* Texts are sequences of one-character strings.  Times are whole seconds, *)
(* confidences are hundredths (0..100), None stands for Python's None.     *)
(***************************************************************************)
EXTENDS Integers, Sequences, FiniteSets, TLC

VARIABLES
    \* process_audio / _validate_segments
    roster,              \* the pipeline's roster; roster.present = FALSE for None
    use_multipass,       \* process_audio's use_multipass
    segments,            \* transcription_output.segments, edited in place
    low_confidence_indices,
    i,                   \* position of the loop over context_windows, from 1
    pc,                  \* where the run is
    \* validate_segment's locals while a call is open
    text,                \* the text after name correction
    context,             \* the context argument
    retranscribed_data,  \* the result of _try_retranscription
    \* what happened, for stating properties
    orig,                \* the segments as _validate_segments received them
    written,             \* written[k]: what validate_segment returned for k
    order,               \* the positions validate_segment was called for
    normalized,          \* the positions correct_names_in_text was applied to
    g_input,             \* the text handed to the latest validate_segment call
    g_context,           \* the context handed to it
    g_calls,             \* its external calls, in order, with the text sent
    g_answers,           \* what its _check_context_fit calls returned
    g_data,              \* what its _try_retranscription call returned
    g_returned,          \* what it returned; NoText while it is open
    g_ended,             \* how each of its external calls that is over ended
    \* _deduplicate_segments on its own
    dd_input,     \* the segment list first handed to _deduplicate_segments
    dd_segments,  \* the list as it is now: dd_input, or the output of a pass
    dd_first,     \* the output of the first pass, NoText before it
    dd_passes,    \* number of passes applied so far
    \* the helper functions called on their own
    u_op,         \* the function applied last, "none" before the first call
    u_in,         \* its arguments
    u_out         \* what it returned

configVars == <<roster, use_multipass>>
runVars == <<segments, low_confidence_indices, i, pc>>
callVars == <<text, context, retranscribed_data>>
histVars == <<orig, written, order, normalized>>
ghostVars ==
    <<g_input, g_context, g_calls, g_answers, g_data, g_returned, g_ended>>
pipeVars == <<configVars, runVars, callVars, histVars, ghostVars>>
ddVars == <<dd_input, dd_segments, dd_first, dd_passes>>
unitVars == <<u_op, u_in, u_out>>
vars == <<pipeVars, ddVars, unitVars>>

None == "None"

\* None where a text or a list is expected
NoText == <<None>>

\* None where a number is expected (times and confidences are never negative)
NoNumber == -1

\* retranscribed_data before _try_retranscription has been called
NoData == [text |-> NoText, confidences |-> <<>>, confidence_improved |-> FALSE]

(***************************************************************************)
(* Strings                                                                 *)
(***************************************************************************)

\* str.isspace on one character
IsSpace(c) == c = " "

\* str.isupper on one character
IsUpper(c) == c \in {"A", "B", "C"}

\* regex \w on one character
IsWordChar(c) == c \in {"a", "b", "c", "A", "B", "C"}

\* str.lower on one character
LowerChar(c) ==
    CASE c = "A" -> "a"
      [] c = "B" -> "b"
      [] c = "C" -> "c"
      [] OTHER -> c

\* str.lower
Lower(s) == [k \in 1..Len(s) |-> LowerChar(s[k])]

RECURSIVE LStrip(_)
LStrip(s) == IF s # <<>> /\ IsSpace(Head(s)) THEN LStrip(Tail(s)) ELSE s

RECURSIVE RStrip(_)
RStrip(s) ==
    IF s # <<>> /\ IsSpace(s[Len(s)]) THEN RStrip(SubSeq(s, 1, Len(s) - 1)) ELSE s

\* str.strip
Strip(s) == RStrip(LStrip(s))

\* a in b, for strings
IsSubstring(a, b) ==
    \E k \in 0..(Len(b) - Len(a)) : SubSeq(b, k + 1, k + Len(a)) = a

\* the first maximal run of characters satisfying / not satisfying IsSpace
RECURSIVE WordEnd(_, _)
WordEnd(s, k) ==
    IF k <= Len(s) /\ ~IsSpace(s[k]) THEN WordEnd(s, k + 1) ELSE k

\* str.split(): the whitespace-separated words, none of them empty
RECURSIVE Split(_)
Split(s) ==
    LET t == LStrip(s) IN
    IF t = <<>> THEN <<>>
    ELSE LET e == WordEnd(t, 1) IN
         <<SubSeq(t, 1, e - 1)>> \o Split(SubSeq(t, e, Len(t)))

\* seq[:n]
Take(seq, n) == SubSeq(seq, 1, IF n < Len(seq) THEN n ELSE Len(seq))

\* seq[-n:]
LastN(seq, n) == SubSeq(seq, IF Len(seq) > n THEN Len(seq) - n + 1 ELSE 1, Len(seq))

\* " ".join(parts)
RECURSIVE Join(_)
Join(parts) ==
    IF parts = <<>> THEN <<>>
    ELSE IF Len(parts) = 1 THEN parts[1]
    ELSE parts[1] \o <<" ">> \o Join(Tail(parts))

Abs(x) == IF x < 0 THEN -x ELSE x

(***************************************************************************)
(* Name Normalizer: roster.CharacterRoster                                 *)
(* A roster is [characters |-> names in dict order, player_names |-> names] *)
(***************************************************************************)

\* the smaller of the first two
Min3_FirstTwo(a, b, c) == IF a <= b THEN a ELSE b

Min3(a, b, c) == IF a <= b /\ a <= c THEN a ELSE IF b <= c THEN b ELSE c

\* the inner loop of _edit_distance: current_row for character c1 of s1
RECURSIVE EditRow(_, _, _, _, _)
EditRow(previous_row, c1, s2, j, current_row) ==
    IF j > Len(s2) THEN current_row
    ELSE LET insertions == previous_row[j + 1] + 1
             deletions == current_row[j] + 1
             substitutions == previous_row[j] + (IF c1 # s2[j] THEN 1 ELSE 0)
         IN EditRow(previous_row, c1, s2, j + 1,
                    Append(current_row, Min3(insertions, deletions, substitutions)))

\* the outer loop of _edit_distance
RECURSIVE EditRows(_, _, _, _)
EditRows(s1, s2, row, previous_row) ==
    IF row > Len(s1) THEN previous_row
    ELSE EditRows(s1, s2, row + 1, EditRow(previous_row, s1[row], s2, 1, <<row>>))

_edit_distance(a, b) ==
    LET s1 == IF Len(a) < Len(b) THEN b ELSE a
        s2 == IF Len(a) < Len(b) THEN a ELSE b
    IN IF Len(s2) = 0 THEN Len(s1)
       ELSE LET last_row == EditRows(s1, s2, 1, [k \in 1..(Len(s2) + 1) |-> k - 1])
            IN last_row[Len(last_row)]

\* float('inf')
Infinity == 1000000

\* "Max 2 edits"
MaxEdits == 2

all_names(ros) == ros.characters \o ros.player_names

\* the second loop of find_closest_match
RECURSIVE BestMatch(_, _, _, _, _)
BestMatch(names, k, name, best_match, min_distance) ==
    IF k > Len(names) THEN best_match
    ELSE LET distance == _edit_distance(name, Lower(names[k]))
         IN IF distance < min_distance /\ distance <= MaxEdits
            THEN BestMatch(names, k + 1, name, names[k], distance)
            ELSE BestMatch(names, k + 1, name, best_match, min_distance)

find_closest_match(ros, given) ==
    LET name == Lower(Strip(given))
        names == all_names(ros)
        exact == {k \in 1..Len(names) : name = Lower(names[k])}
    IN IF name = <<>> THEN name
       ELSE IF exact # {}
            THEN names[CHOOSE k \in exact : \A m \in exact : k <= m]
       ELSE BestMatch(names, 1, name, name, Infinity)

\* the end of the maximal run of \w characters that starts at k
RECURSIVE WordCharEnd(_, _)
WordCharEnd(s, k) ==
    IF k <= Len(s) /\ IsWordChar(s[k]) THEN WordCharEnd(s, k + 1) ELSE k

\* re.findall(r'\b\w+\b', txt)
RECURSIVE FindWords(_, _)
FindWords(txt, k) ==
    IF k > Len(txt) THEN <<>>
    ELSE IF IsWordChar(txt[k])
         THEN LET e == WordCharEnd(txt, k)
              IN <<SubSeq(txt, k, e - 1)>> \o FindWords(txt, e)
    ELSE FindWords(txt, k + 1)

\* whether r'\b' + word + r'\b' matches txt at k, ignoring case
WordMatchAt(txt, k, word) ==
    /\ k + Len(word) - 1 <= Len(txt)
    /\ Lower(SubSeq(txt, k, k + Len(word) - 1)) = Lower(word)
    /\ (k = 1 \/ ~IsWordChar(txt[k - 1]))
    /\ (k + Len(word) > Len(txt) \/ ~IsWordChar(txt[k + Len(word)]))

\* re.sub(r'\b' + word + r'\b', corrected, txt, flags=re.IGNORECASE)
RECURSIVE ReSubWord(_, _, _, _)
ReSubWord(txt, k, word, corrected) ==
    IF k > Len(txt) THEN <<>>
    ELSE IF WordMatchAt(txt, k, word)
         THEN corrected \o ReSubWord(txt, k + Len(word), word, corrected)
    ELSE <<txt[k]>> \o ReSubWord(txt, k + 1, word, corrected)

\* the loop of correct_names_in_text over words
RECURSIVE CorrectWords(_, _, _, _)
CorrectWords(ros, words, k, corrected_text) ==
    IF k > Len(words) THEN corrected_text
    ELSE LET word == words[k]
             corrected == find_closest_match(ros, word)
         IN IF Len(word) > 2 /\ corrected # word /\ Lower(corrected) # Lower(word)
            THEN CorrectWords(ros, words, k + 1,
                              ReSubWord(corrected_text, 1, word, corrected))
            ELSE CorrectWords(ros, words, k + 1, corrected_text)

correct_names_in_text(ros, txt) ==
    CorrectWords(ros, FindWords(txt, 1), 1, txt)

(***************************************************************************)
(* Deduplication: D_DTranscriptionPipeline._deduplicate_segments           *)
(***************************************************************************)

\* sorted(segments, key=start_time): stable insertion of seg into a sorted list
RECURSIVE InsertByStart(_, _)
InsertByStart(sorted, seg) ==
    IF sorted = <<>> THEN <<seg>>
    ELSE IF sorted[Len(sorted)].start_time <= seg.start_time
         THEN Append(sorted, seg)
         ELSE Append(InsertByStart(SubSeq(sorted, 1, Len(sorted) - 1), seg),
                     sorted[Len(sorted)])

\* the scan without the sort in front of it
NoSort(segs) == segs

RECURSIVE SortByStart(_)
SortByStart(segs) ==
    IF segs = <<>> THEN <<>>
    ELSE InsertByStart(SortByStart(SubSeq(segs, 1, Len(segs) - 1)),
                       segs[Len(segs)])

\* the seconds within which two starts count as the same utterance
StartProximity == 5

\* the number of leading words compared to detect a repetition
RepeatWords == 3

time_overlap(segment, prev_segment) ==
    /\ segment.start_time < prev_segment.end_time
    /\ segment.end_time > prev_segment.start_time
    /\ Abs(segment.start_time - prev_segment.start_time) < StartProximity

ExactDuplicate(current_text, prev_text) == current_text = prev_text

ContainedOverlap(segment, prev_segment, current_text, prev_text) ==
    /\ time_overlap(segment, prev_segment)
    /\ Len(current_text) > 0
    /\ Len(prev_text) > 0
    /\ (IsSubstring(current_text, prev_text) \/ IsSubstring(prev_text, current_text))

LikelyRepetition(current_text, prev_text) ==
    LET words_current == Split(current_text)
        words_prev == Split(prev_text)
    IN /\ Len(words_current) > RepeatWords
       /\ Len(words_prev) > RepeatWords
       /\ Take(words_current, RepeatWords) = Take(words_prev, RepeatWords)

\* the scan step without the comparison of the two texts for equality
DedupStep_NoExactCheck(deduplicated, segment) ==
    LET prev_segment == deduplicated[Len(deduplicated)]
        current_text == Strip(segment.text)
        prev_text == Strip(prev_segment.text)
    IN IF ContainedOverlap(segment, prev_segment, current_text, prev_text)
            /\ current_text # prev_text
       THEN IF Len(current_text) > Len(prev_text)
            THEN [deduplicated EXCEPT ![Len(deduplicated)] = segment]
            ELSE deduplicated
       ELSE IF LikelyRepetition(current_text, prev_text) THEN deduplicated
       ELSE Append(deduplicated, segment)

\* the scan step that keeps the earlier of two contained texts, whatever
\* their lengths
DedupStep_KeepsEarlier(deduplicated, segment) ==
    LET prev_segment == deduplicated[Len(deduplicated)]
        current_text == Strip(segment.text)
        prev_text == Strip(prev_segment.text)
    IN IF ExactDuplicate(current_text, prev_text) THEN deduplicated
       ELSE IF ContainedOverlap(segment, prev_segment, current_text, prev_text)
            THEN deduplicated
       ELSE IF LikelyRepetition(current_text, prev_text) THEN deduplicated
       ELSE Append(deduplicated, segment)

\* the scan step without the comparison of the leading words
DedupStep_NoRepetitionCheck(deduplicated, segment) ==
    LET prev_segment == deduplicated[Len(deduplicated)]
        current_text == Strip(segment.text)
        prev_text == Strip(prev_segment.text)
    IN IF ExactDuplicate(current_text, prev_text) THEN deduplicated
       ELSE IF ContainedOverlap(segment, prev_segment, current_text, prev_text)
            THEN IF Len(current_text) > Len(prev_text)
                 THEN [deduplicated EXCEPT ![Len(deduplicated)] = segment]
                 ELSE deduplicated
       ELSE Append(deduplicated, segment)

\* the scan step that gives the kept entry the longer text and leaves its
\* times as they are
DedupStep_MergesText(deduplicated, segment) ==
    LET prev_segment == deduplicated[Len(deduplicated)]
        current_text == Strip(segment.text)
        prev_text == Strip(prev_segment.text)
    IN IF ExactDuplicate(current_text, prev_text) THEN deduplicated
       ELSE IF ContainedOverlap(segment, prev_segment, current_text, prev_text)
            THEN IF Len(current_text) > Len(prev_text)
                 THEN [deduplicated EXCEPT ![Len(deduplicated)].text = segment.text]
                 ELSE deduplicated
       ELSE IF LikelyRepetition(current_text, prev_text) THEN deduplicated
       ELSE Append(deduplicated, segment)

\* one iteration of the scan over sorted_segments; deduplicated is never empty
\* here and prev_segment is its last element
DedupStep(deduplicated, segment) ==
    LET prev_segment == deduplicated[Len(deduplicated)]
        current_text == Strip(segment.text)
        prev_text == Strip(prev_segment.text)
    IN IF ExactDuplicate(current_text, prev_text) THEN deduplicated
       ELSE IF ContainedOverlap(segment, prev_segment, current_text, prev_text)
            THEN IF Len(current_text) > Len(prev_text)
                 THEN [deduplicated EXCEPT ![Len(deduplicated)] = segment]
                 ELSE deduplicated
       ELSE IF LikelyRepetition(current_text, prev_text) THEN deduplicated
       ELSE Append(deduplicated, segment)

RECURSIVE DedupScan(_, _, _)
DedupScan(sorted_segments, k, deduplicated) ==
    IF k > Len(sorted_segments) THEN deduplicated
    ELSE DedupScan(sorted_segments, k + 1,
                   IF deduplicated = <<>> THEN <<sorted_segments[k]>>
                   ELSE DedupStep(deduplicated, sorted_segments[k]))

_deduplicate_segments(segs) ==
    IF segs = <<>> THEN segs
    ELSE DedupScan(SortByStart(segs), 1, <<>>)

(***************************************************************************)
(* Segments (models.Segment); id stands for the identity of the object     *)
(***************************************************************************)

Segment(id, txt, start_time, end_time, confidence) ==
    [id |-> id, text |-> txt, speaker |-> "SPEAKER_00",
     start_time |-> start_time, end_time |-> end_time, confidence |-> confidence]

(***************************************************************************)
(* Context windows: context.ContextWindowManager as the pipeline builds it *)
(***************************************************************************)

\* ContextWindowManager(window_size=5, overlap=1)
window_size == 5

\* context_before[-10:]
BeforeCap == 10

\* context_after[:2]
AfterCap == 2

Max(a, b) == IF a > b THEN a ELSE b
Min(a, b) == IF a < b THEN a ELSE b

\* the whole list before k as its context_before
context_before_Whole(n, k) == [m \in 1..(k - 1) |-> m]

\* create_windows: the positions of context_before and context_after of k;
\* the slices hold the Segment objects themselves, so positions stand for them
context_before(n, k) ==
    LET before_start == Max(1, k - (window_size \div 2))
    IN [m \in 1..(k - before_start) |-> before_start + m - 1]

context_after(n, k) ==
    LET after_end == Min(n, k + (window_size \div 2))
    IN [m \in 1..(after_end - k) |-> k + m]

\* seq[a:b] for 0 <= a, 0 <= b
PySlice(seq, a, b) == SubSeq(seq, a + 1, Min(b, Len(seq)))

\* create_windows whose after slice stops one segment early
create_windows_ShortAfter(segs, ws) ==
    [k \in 1..Len(segs) |->
        LET idx == k - 1
            before_start == Max(0, idx - (ws \div 2))
            after_end == Min(Len(segs), idx + (ws \div 2))
        IN [focus |-> segs[k],
            before |-> PySlice(segs, before_start, idx),
            after |-> PySlice(segs, idx + 1, after_end)]]

\* create_windows of a manager with window_size ws; idx is Python's i
create_windows(segs, ws) ==
    [k \in 1..Len(segs) |->
        LET idx == k - 1
            before_start == Max(0, idx - (ws \div 2))
            after_end == Min(Len(segs), idx + 1 + (ws \div 2))
        IN [focus |-> segs[k],
            before |-> PySlice(segs, before_start, idx),
            after |-> PySlice(segs, idx + 1, after_end)]]

\* the loop of create_overlapping_windows from idx (Python's i) on
RECURSIVE OverlappingFrom(_, _, _, _, _)
\* the loop without its break
OverlappingFrom_NoBreak(segs, ws, step, idx, windows) ==
    IF idx >= Len(segs) THEN windows
    ELSE LET window_end == Min(idx + ws, Len(segs))
             window == PySlice(segs, idx, window_end)
             added == IF window # <<>> THEN Append(windows, window) ELSE windows
         IN OverlappingFrom(segs, ws, step, idx + step, added)

OverlappingFrom(segs, ws, step, idx, windows) ==
    IF idx >= Len(segs) THEN windows
    ELSE LET window_end == Min(idx + ws, Len(segs))
             window == PySlice(segs, idx, window_end)
             added == IF window # <<>> THEN Append(windows, window) ELSE windows
         IN IF window_end >= Len(segs) THEN added
            ELSE OverlappingFrom(segs, ws, step, idx + step, added)

\* the chunks taken with a stride one segment too long
create_overlapping_windows_LongStride(segs, ws, overlap) ==
    IF segs = <<>> THEN <<>>
    ELSE OverlappingFrom(segs, ws, ws - overlap + 1, 0, <<>>)

\* create_overlapping_windows of a manager with window_size ws and this overlap
create_overlapping_windows(segs, ws, overlap) ==
    IF segs = <<>> THEN <<>>
    ELSE OverlappingFrom(segs, ws, ws - overlap, 0, <<>>)

\* the texts as they were when the windows were created
SnapshotTexts == [k \in 1..Len(orig) |-> orig[k].text]

\* seg.text as read through the window's reference when the loop reaches k
CurrentTexts == [k \in 1..Len(segments) |-> segments[k].text]

\* context_text built from the preceding segments only
ContextText_NoFuture(texts, k) ==
    LET before == LastN(context_before(Len(texts), k), BeforeCap)
        context_segments == [m \in 1..Len(before) |-> texts[before[m]]]
    IN IF Len(before) > 0 THEN Join(context_segments) ELSE <<>>

\* context_text of the loop body, before .strip()
ContextText(texts, k) ==
    LET before == LastN(context_before(Len(texts), k), BeforeCap)
        after == Take(context_after(Len(texts), k), AfterCap)
        context_segments == [m \in 1..Len(before) |-> texts[before[m]]]
        future_segments == [m \in 1..Len(after) |-> texts[after[m]]]
        first == IF Len(before) > 0 THEN Join(context_segments) ELSE <<>>
    IN IF Len(after) > 0 THEN first \o <<" ">> \o Join(future_segments) ELSE first

(***************************************************************************)
(* Which segments are repaired                                             *)
(***************************************************************************)

\* threshold=0.7, in hundredths
ConfidenceThreshold == 70

\* the loop of identify_low_confidence_segments from position k on; positions
\* count from 1 where Python's enumerate counts from 0
RECURSIVE LowConfidenceFrom(_, _, _, _)
\* the loop with "at most" for "less than"
LowConfidenceFrom_AtMost(segs, threshold, k, low_confidence) ==
    IF k > Len(segs) THEN low_confidence
    ELSE LET confidence == segs[k].confidence
         IN LowConfidenceFrom(segs, threshold, k + 1,
               IF confidence # NoNumber /\ confidence <= threshold
               THEN Append(low_confidence, k)
               ELSE low_confidence)

LowConfidenceFrom(segs, threshold, k, low_confidence) ==
    IF k > Len(segs) THEN low_confidence
    ELSE LET confidence == segs[k].confidence
         IN LowConfidenceFrom(segs, threshold, k + 1,
               IF confidence # NoNumber /\ confidence < threshold
               THEN Append(low_confidence, k)
               ELSE low_confidence)

identify_low_confidence_segments(segs, threshold) ==
    LowConfidenceFrom(segs, threshold, 1, <<>>)

\* the look of the text judged without asking whether there is a roster
_might_contain_character_names_AnyRoster(t) ==
    \E w \in 1..Len(Split(t)) :
       LET word == Split(t)[w] IN IsUpper(word[1]) /\ Len(word) > 2

_might_contain_character_names(t) ==
    IF ~roster.present THEN FALSE
    ELSE \E w \in 1..Len(Split(t)) :
            LET word == Split(t)[w] IN IsUpper(word[1]) /\ Len(word) > 2

\* the decision to repair taken on the look of the text alone
should_validate_NamesOnly(k) ==
    _might_contain_character_names(segments[k].text)

\* every segment is repaired
should_validate_Always(k) == TRUE

should_validate(k) ==
    \/ \E m \in 1..Len(low_confidence_indices) : low_confidence_indices[m] = k
    \/ _might_contain_character_names(segments[k].text)

(***************************************************************************)
(* External calls: what each can produce                                   *)
(***************************************************************************)

\* POST /api/generate with stream=False, as _check_context_fit sees it
FitOutcomes ==
    { "answer_yes",           \* 200, response starts with YES after strip/upper
      "answer_no",            \* 200, any other response text
      "no_response_key",      \* 200, a JSON object without "response"
      "connection_error",     \* requests.ConnectionError
      "http_error",           \* raise_for_status raises HTTPError
      "invalid_json",         \* response.json() raises requests' JSONDecodeError
      "response_not_string",  \* 200, {"response": null}: None has no strip
      "body_not_object" }     \* 200, a JSON array: a list has no get

\* _check_context_fit: "True", "False", or the exception that escapes it
_check_context_fit(outcome) ==
    CASE outcome = "answer_yes" -> "True"
      [] outcome \in {"answer_no", "no_response_key"} -> "False"
      [] outcome \in {"timeout", "connection_error", "http_error", "invalid_json"}
           -> "False"
      [] outcome \in {"response_not_string", "body_not_object"} -> "AttributeError"

\* texts a retranscription or a correction can bring: a misspelt roster name, blank
NewTexts == { <<"A", "b", "b">>, <<" ">> }

\* one segment of a retranscription result; NoText / NoNumber for a missing key
ResultSegments ==
    { [text |-> t, confidence |-> c] :
        t \in NewTexts \cup {NoText}, c \in {NoNumber, 55, 56} }

\* retranscribe_segment: it raises, or returns a result with or without "segments"
TranscribeOutcomes ==
    { [raised |-> TRUE, has_segments |-> FALSE, segments |-> <<>>],
      [raised |-> FALSE, has_segments |-> FALSE, segments |-> <<>>],
      [raised |-> FALSE, has_segments |-> TRUE, segments |-> <<>>] }
    \cup { [raised |-> FALSE, has_segments |-> TRUE, segments |-> <<rs>>] :
             rs \in ResultSegments }
    \cup { [raised |-> FALSE, has_segments |-> TRUE,
            segments |-> << [text |-> <<"A", "b", "b">>, confidence |-> 60],
                            [text |-> NoText, confidence |-> c2] >>] :
             c2 \in {50, 51} }

\* one line of the streamed /api/generate body, as the loop over iter_lines sees it
StreamLines ==
    { [kind |-> "token", token |-> t] : t \in NewTexts }
    \cup { [kind |-> k, token |-> <<>>] :
             k \in { "empty_line",     \* if line: is false
                     "invalid_json",   \* json.JSONDecodeError, skipped
                     "no_token",       \* chunk.get("response") is falsy
                     "not_object",     \* a JSON array: AttributeError on get
                     "stream_error" } }  \* iter_lines raises a RequestException

\* POST /api/generate with stream=True: it fails before the body, or streams lines
CorrectOutcomes ==
    { [error |-> e, lines |-> <<>>] : e \in {"connection_error", "http_error"} }
    \cup { [error |-> "none", lines |-> <<>>] }
    \cup { [error |-> "none", lines |-> <<l>>] : l \in StreamLines }
    \cup { [error |-> "none",
            lines |-> <<[kind |-> "token", token |-> <<" ">>], l>>] :
             l \in StreamLines }

(***************************************************************************)
(* validate_segment and its helpers                                        *)
(***************************************************************************)

\* self.validator.transcriber = self.transcriber
transcriber == TRUE

\* the improvement threshold 0.05, in hundredths
ImprovementMargin == 5

RECURSIVE SumConf(_)
SumConf(confs) == IF confs = <<>> THEN 0 ELSE Head(confs) + SumConf(Tail(confs))

\* avg_confidence >= x
AvgAtLeast(confidences, x) ==
    IF confidences = <<>> THEN 0 >= x
    ELSE SumConf(confidences) >= x * Len(confidences)

\* avg_confidence > x, for avg_confidence = sum(confidences) / len(confidences)
\* if confidences else 0.0
AvgExceeds(confidences, x) ==
    IF confidences = <<>> THEN 0 > x
    ELSE SumConf(confidences) > x * Len(confidences)

\* _try_retranscription without its test that the joined text is not empty
_try_retranscription_KeepsBlank(original_text, result, original_confidence) ==
    LET default_result ==
            [text |-> original_text, confidences |-> <<>>,
             confidence_improved |-> FALSE]
        segs == result.segments
        retranscribed_text ==
            Strip(Join([m \in 1..Len(segs) |->
                          IF segs[m].text = NoText THEN <<>> ELSE segs[m].text]))
        confidences ==
            SelectSeq([m \in 1..Len(segs) |-> segs[m].confidence],
                      LAMBDA c : c # NoNumber)
        confidence_improved ==
            \/ original_confidence = NoNumber
            \/ AvgExceeds(confidences, original_confidence + ImprovementMargin)
    IN IF result.raised \/ ~transcriber THEN default_result
       ELSE IF result.has_segments /\ segs # <<>>
            THEN [text |-> retranscribed_text, confidences |-> confidences,
                  confidence_improved |-> confidence_improved]
       ELSE default_result

_try_retranscription(original_text, result, original_confidence) ==
    LET default_result ==
            [text |-> original_text, confidences |-> <<>>,
             confidence_improved |-> FALSE]
        segs == result.segments
        retranscribed_text ==
            Strip(Join([m \in 1..Len(segs) |->
                          IF segs[m].text = NoText THEN <<>> ELSE segs[m].text]))
        confidences ==
            SelectSeq([m \in 1..Len(segs) |-> segs[m].confidence],
                      LAMBDA c : c # NoNumber)
        confidence_improved ==
            \/ original_confidence = NoNumber
            \/ AvgExceeds(confidences, original_confidence + ImprovementMargin)
    IN IF result.raised \/ ~transcriber THEN default_result
       ELSE IF result.has_segments /\ segs # <<>> /\ retranscribed_text # <<>>
            THEN [text |-> retranscribed_text, confidences |-> confidences,
                  confidence_improved |-> confidence_improved]
       ELSE default_result

\* the loop over response.iter_lines(): the text gathered, or how it ended
RECURSIVE ReadStream(_, _, _)
ReadStream(lines, k, corrected_text) ==
    IF k > Len(lines) THEN [status |-> "ok", text |-> corrected_text]
    ELSE CASE lines[k].kind = "token" ->
                ReadStream(lines, k + 1, corrected_text \o lines[k].token)
           [] lines[k].kind \in {"empty_line", "invalid_json", "no_token"} ->
                ReadStream(lines, k + 1, corrected_text)
           [] lines[k].kind = "stream_error" ->
                [status |-> "RequestException", text |-> corrected_text]
           [] lines[k].kind = "not_object" ->
                [status |-> "AttributeError", text |-> corrected_text]

\* the try block returning what the stream brought, blank or not
CorrectionResult_NoFallback(current, outcome) ==
    IF outcome.error # "none" THEN current
    ELSE LET read == ReadStream(outcome.lines, 1, <<>>)
         IN IF read.status = "RequestException" THEN current
            ELSE IF read.status = "AttributeError" THEN NoText
            ELSE Strip(read.text)

\* the try block of validate_segment: the text returned, or NoText when an
\* exception escapes
CorrectionResult(current, outcome) ==
    IF outcome.error # "none" THEN current
    ELSE LET read == ReadStream(outcome.lines, 1, <<>>)
         IN IF read.status = "RequestException" THEN current
            ELSE IF read.status = "AttributeError" THEN NoText
            ELSE IF Strip(read.text) # <<>> THEN Strip(read.text) ELSE current

\* how a call ended, in the words of the failure policy: the oracle gave an
\* answer, or the call failed (transport, timeout, status, malformed body)
FitEnding(outcome) ==
    IF outcome \in {"answer_yes", "answer_no"} THEN "answered" ELSE "failed"

\* retranscribe_segment raised, or brought no segments or only blank text:
\* retranscription is unavailable; otherwise it brought a text
TranscribeEnding(outcome) ==
    IF \/ outcome.raised
       \/ ~outcome.has_segments
       \/ \A m \in 1..Len(outcome.segments) :
             \/ outcome.segments[m].text = NoText
             \/ Strip(outcome.segments[m].text) = <<>>
    THEN "unavailable"
    ELSE "text"

\* the correction failed in transport (error, timeout, bad status) or brought
\* only blank text; its stream held a line that is not a JSON object; or it
\* brought a text
CorrectEnding(outcome) ==
    IF outcome.error # "none" THEN "failed_or_empty"
    ELSE LET read == ReadStream(outcome.lines, 1, <<>>)
         IN IF read.status = "RequestException" THEN "failed_or_empty"
            ELSE IF read.status = "AttributeError" THEN "malformed"
            ELSE IF Strip(read.text) = <<>> THEN "failed_or_empty"
            ELSE "text"

\* the arguments _validate_segments passes for segment k
arg_audio_path == IF use_multipass THEN "vocals_path" ELSE None
arg_start_time(k) == IF use_multipass THEN segments[k].start_time ELSE NoNumber
arg_end_time(k) == IF use_multipass THEN segments[k].end_time ELSE NoNumber

\* the guard of the retranscription branch
CanRetranscribe(k) ==
    /\ transcriber
    /\ arg_audio_path # None
    /\ arg_start_time(k) # NoNumber
    /\ arg_end_time(k) # NoNumber

\* the return that passes the text through the roster before writing it back
Return_Normalized(t) ==
    LET corrected == IF roster.present THEN correct_names_in_text(roster, t) ELSE t
    IN /\ segments' = [segments EXCEPT ![i].text = corrected]
       /\ written' = [written EXCEPT ![i] = corrected]
       /\ g_returned' = corrected
       /\ i' = i + 1
       /\ pc' = "loop"
       /\ text' = NoText
       /\ context' = NoText
       /\ retranscribed_data' = NoData

\* validate_segment returns t: segment.text = corrected_text, and the loop goes on
Return(t) ==
    /\ segments' = [segments EXCEPT ![i].text = t]
    /\ written' = [written EXCEPT ![i] = t]
    /\ g_returned' = t
    /\ i' = i + 1
    /\ pc' = "loop"
    /\ text' = NoText
    /\ context' = NoText
    /\ retranscribed_data' = NoData

\* an exception leaves validate_segment and _validate_segments
Raise ==
    /\ pc' = "raised"
    /\ UNCHANGED <<segments, written, g_returned, i, text, context,
                   retranscribed_data>>

\* validate_segment goes on to the external call op with text t
Call(op, t, next) ==
    /\ pc' = next
    /\ g_calls' = Append(g_calls, [op |-> op, text |-> t])
    /\ UNCHANGED <<segments, written, g_returned, i>>

(***************************************************************************)
(* The run: process_audio steps 3 to 7                                     *)
(***************************************************************************)

MaxSegs == 3

\* convert_whisperx_output strips the text of every segment it builds
SegTexts ==
    { <<"A", "b", "b">>,   \* capitalised, one edit from a roster name
      <<"a", "b", "b">>,   \* the same without the capital
      <<>> }               \* empty

SegConfidences == {NoNumber, 50, 90}

\* the segments a transcription is made of here: a text with a confidence
SegInputs ==
    { <<t, c>> \in SegTexts \X SegConfidences :
         IF t = <<"A", "b", "b">> THEN c # 50   \* capitalised: repaired for its look
         ELSE IF t = <<>> THEN c = 50          \* blank: repaired for its confidence
         ELSE c # NoNumber }                   \* plain: repaired or left alone

TheRoster ==
    [present |-> TRUE,
     characters |-> << <<"A", "b", "c">> >>,
     player_names |-> << <<"C", "a", "b">> >>]

NoRoster == [present |-> FALSE, characters |-> <<>>, player_names |-> <<>>]

\* no validate_segment call to speak of
GhostIdle ==
    /\ g_input = NoText
    /\ g_context = NoText
    /\ g_calls = <<>>
    /\ g_answers = <<>>
    /\ g_data = NoData
    /\ g_returned = NoText
    /\ g_ended = <<>>

\* the record of the latest call is dropped
ResetGhost ==
    /\ g_input' = NoText
    /\ g_context' = NoText
    /\ g_calls' = <<>>
    /\ g_answers' = <<>>
    /\ g_data' = NoData
    /\ g_returned' = NoText
    /\ g_ended' = <<>>

\* no helper function called on its own
UnitIdle ==
    /\ u_op = "none"
    /\ u_in = <<>>
    /\ u_out = <<>>

DedupIdle ==
    /\ dd_input = <<>>
    /\ dd_segments = <<>>
    /\ dd_first = NoText
    /\ dd_passes = 0

Init ==
    /\ roster \in {NoRoster, TheRoster}
    /\ use_multipass \in BOOLEAN
    /\ segments = <<>>
    /\ low_confidence_indices = <<>>
    /\ i = 0
    /\ pc = "convert"
    /\ text = NoText
    /\ context = NoText
    /\ retranscribed_data = NoData
    /\ orig = <<>>
    /\ written = <<>>
    /\ order = <<>>
    /\ normalized = {}
    /\ GhostIdle
    /\ DedupIdle
    /\ UnitIdle

\* convert_whisperx_output yields the next segment of the transcription
Convert ==
    /\ pc = "convert"
    /\ Len(segments) < MaxSegs
    /\ \E sc \in SegInputs :
          segments' = Append(segments,
                             Segment(Len(segments) + 1, sc[1], 3 * Len(segments),
                                     3 * Len(segments) + 3, sc[2]))
    /\ UNCHANGED <<configVars, low_confidence_indices, i, pc, callVars, histVars,
                   ghostVars, ddVars, unitVars>>

\* _validate_segments up to its loop
BeginValidate ==
    /\ pc = "convert"
    /\ low_confidence_indices' =
          identify_low_confidence_segments(segments, ConfidenceThreshold)
    /\ i' = 1
    /\ pc' = "loop"
    /\ orig' = segments
    /\ written' = [k \in 1..Len(segments) |-> NoText]
    /\ UNCHANGED <<configVars, segments, callVars, order, normalized, ghostVars,
                   ddVars, unitVars>>

\* the iteration that asks whether the text fits whatever the context is
LoopStep_AlwaysChecksContext ==
    /\ pc = "loop"
    /\ i <= Len(segments)
    /\ LET context_text == ContextText(CurrentTexts, i)
           incoming == segments[i].text
           corrected == IF roster.present
                        THEN correct_names_in_text(roster, incoming)
                        ELSE incoming
       IN IF ~should_validate(i)
          THEN /\ i' = i + 1
               /\ ResetGhost
               /\ UNCHANGED <<segments, pc, callVars, written, order, normalized>>
          ELSE /\ order' = Append(order, i)
               /\ g_input' = incoming
               /\ g_context' = Strip(context_text)
               /\ g_answers' = <<>>
               /\ g_data' = NoData
               /\ g_ended' = <<>>
               /\ IF Strip(incoming) = <<>>
                  THEN /\ Return(incoming)
                       /\ g_calls' = <<>>
                       /\ UNCHANGED normalized
                  ELSE /\ text' = corrected
                       /\ context' = Strip(context_text)
                       /\ retranscribed_data' = NoData
                       /\ normalized' = IF roster.present
                                        THEN normalized \cup {i} ELSE normalized
                       /\ segments' = segments
                       /\ written' = written
                       /\ g_returned' = NoText
                       /\ i' = i
                       /\ IF TRUE
                          THEN /\ pc' = "context_check"
                               /\ g_calls' = <<[op |-> "ask_fits", text |-> corrected]>>
                          ELSE /\ pc' = "correction"
                               /\ g_calls' = <<[op |-> "correct", text |-> corrected]>>
    /\ UNCHANGED <<configVars, low_confidence_indices, orig, ddVars, unitVars>>

\* one iteration of the loop, into validate_segment as far as its first
\* external call or its return
LoopStep ==
    /\ pc = "loop"
    /\ i <= Len(segments)
    /\ LET context_text == ContextText(CurrentTexts, i)
           incoming == segments[i].text
           corrected == IF roster.present
                        THEN correct_names_in_text(roster, incoming)
                        ELSE incoming
       IN IF ~should_validate(i)
          THEN /\ i' = i + 1
               /\ ResetGhost
               /\ UNCHANGED <<segments, pc, callVars, written, order, normalized>>
          ELSE /\ order' = Append(order, i)
               /\ g_input' = incoming
               /\ g_context' = Strip(context_text)
               /\ g_answers' = <<>>
               /\ g_data' = NoData
               /\ g_ended' = <<>>
               /\ IF Strip(incoming) = <<>>
                  THEN /\ Return(incoming)
                       /\ g_calls' = <<>>
                       /\ UNCHANGED normalized
                  ELSE /\ text' = corrected
                       /\ context' = Strip(context_text)
                       /\ retranscribed_data' = NoData
                       /\ normalized' = IF roster.present
                                        THEN normalized \cup {i} ELSE normalized
                       /\ segments' = segments
                       /\ written' = written
                       /\ g_returned' = NoText
                       /\ i' = i
                       /\ IF Strip(Strip(context_text)) # <<>>
                          THEN /\ pc' = "context_check"
                               /\ g_calls' = <<[op |-> "ask_fits", text |-> corrected]>>
                          ELSE /\ pc' = "correction"
                               /\ g_calls' = <<[op |-> "correct", text |-> corrected]>>
    /\ UNCHANGED <<configVars, low_confidence_indices, orig, ddVars, unitVars>>

\* validate_segment going on to repair whatever the first answer was
AfterContextCheck_NoShortcut(fits) ==
    IF fits = "AttributeError"
    THEN Raise /\ UNCHANGED <<g_calls, g_answers>>
    ELSE /\ g_answers' = Append(g_answers, fits)
         /\ UNCHANGED <<text, context, retranscribed_data>>
         /\ IF CanRetranscribe(i)
            THEN Call("transcribe_span", text, "retranscription")
            ELSE Call("correct", text, "correction")

\* after _check_context_fit(text, context) returned fits or raised
AfterContextCheck(fits) ==
    IF fits = "AttributeError"
    THEN Raise /\ UNCHANGED <<g_calls, g_answers>>
    ELSE /\ g_answers' = Append(g_answers, fits)
         /\ IF fits = "True"
            THEN Return(text) /\ UNCHANGED g_calls
            ELSE /\ UNCHANGED <<text, context, retranscribed_data>>
                 /\ IF CanRetranscribe(i)
                    THEN Call("transcribe_span", text, "retranscription")
                    ELSE Call("correct", text, "correction")

ContextCheckRespond ==
    /\ pc = "context_check"
    /\ \E outcome \in FitOutcomes :
          /\ AfterContextCheck(_check_context_fit(outcome))
          /\ g_ended' = Append(g_ended, FitEnding(outcome))
    /\ UNCHANGED <<configVars, low_confidence_indices, orig, order, normalized,
                   g_input, g_context, g_data, ddVars, unitVars>>

\* timeout=30 expires
ContextCheckTimeout ==
    /\ pc = "context_check"
    /\ AfterContextCheck(_check_context_fit("timeout"))
    /\ g_ended' = Append(g_ended, FitEnding("timeout"))
    /\ UNCHANGED <<configVars, low_confidence_indices, orig, order, normalized,
                   g_input, g_context, g_data, ddVars, unitVars>>

\* retranscribe_segment returns or raises inside _try_retranscription
TranscribeRespond ==
    /\ pc = "retranscription"
    /\ \E outcome \in TranscribeOutcomes :
          LET data == _try_retranscription(text, outcome, segments[i].confidence)
          IN /\ retranscribed_data' = data
             /\ g_data' = data
             /\ g_ended' = Append(g_ended, TranscribeEnding(outcome))
             /\ IF data.text # text
                THEN Call("ask_fits", data.text, "recheck")
                ELSE Call("correct", text, "correction")
    /\ UNCHANGED <<configVars, low_confidence_indices, text, context, orig, order,
                   normalized, g_input, g_context, g_answers, ddVars, unitVars>>

\* validate_segment going on to the correction whatever the re-check said
AfterRecheck_AlwaysCorrects(fits) ==
    IF fits = "AttributeError"
    THEN Raise /\ UNCHANGED <<g_calls, g_answers>>
    ELSE /\ g_answers' = Append(g_answers, fits)
         /\ UNCHANGED <<text, context, retranscribed_data>>
         /\ Call("correct", text, "correction")

\* after _check_context_fit(retranscribed_text, context) returned fits or raised
AfterRecheck(fits) ==
    IF fits = "AttributeError"
    THEN Raise /\ UNCHANGED <<g_calls, g_answers>>
    ELSE /\ g_answers' = Append(g_answers, fits)
         /\ IF fits = "True" \/ retranscribed_data.confidence_improved
            THEN Return(retranscribed_data.text) /\ UNCHANGED g_calls
            ELSE /\ UNCHANGED <<text, context, retranscribed_data>>
                 /\ Call("correct", text, "correction")

RecheckRespond ==
    /\ pc = "recheck"
    /\ \E outcome \in FitOutcomes :
          /\ AfterRecheck(_check_context_fit(outcome))
          /\ g_ended' = Append(g_ended, FitEnding(outcome))
    /\ UNCHANGED <<configVars, low_confidence_indices, orig, order, normalized,
                   g_input, g_context, g_data, ddVars, unitVars>>

\* timeout=30 expires
RecheckTimeout ==
    /\ pc = "recheck"
    /\ AfterRecheck(_check_context_fit("timeout"))
    /\ g_ended' = Append(g_ended, FitEnding("timeout"))
    /\ UNCHANGED <<configVars, low_confidence_indices, orig, order, normalized,
                   g_input, g_context, g_data, ddVars, unitVars>>

\* after the try block around the streamed correction
AfterCorrection(result) ==
    IF result = NoText
    THEN Raise /\ UNCHANGED <<g_calls, g_answers>>
    ELSE Return(result) /\ UNCHANGED <<g_calls, g_answers>>

CorrectRespond ==
    /\ pc = "correction"
    /\ \E outcome \in CorrectOutcomes :
          /\ AfterCorrection(CorrectionResult(text, outcome))
          /\ g_ended' = Append(g_ended, CorrectEnding(outcome))
    /\ UNCHANGED <<configVars, low_confidence_indices, orig, order, normalized,
                   g_input, g_context, g_data, ddVars, unitVars>>

\* timeout=60 expires
CorrectTimeout ==
    /\ pc = "correction"
    /\ AfterCorrection(CorrectionResult(text, [error |-> "timeout", lines |-> <<>>]))
    /\ g_ended' = Append(g_ended, CorrectEnding([error |-> "timeout", lines |-> <<>>]))
    /\ UNCHANGED <<configVars, low_confidence_indices, orig, order, normalized,
                   g_input, g_context, g_data, ddVars, unitVars>>

\* the loop is over: process_audio steps 6 and 7
FinishRun ==
    /\ pc = "loop"
    /\ i > Len(segments)
    /\ segments' = _deduplicate_segments(segments)
    /\ pc' = "done"
    /\ ResetGhost
    /\ UNCHANGED <<configVars, low_confidence_indices, i, callVars, histVars,
                   ddVars, unitVars>>

Next ==
    \/ Convert
    \/ BeginValidate
    \/ LoopStep
    \/ ContextCheckRespond
    \/ ContextCheckTimeout
    \/ TranscribeRespond
    \/ RecheckRespond
    \/ RecheckTimeout
    \/ CorrectRespond
    \/ CorrectTimeout
    \/ FinishRun

Spec == Init /\ [][Next]_vars

\* the loop has a segment left to look at: exactly when LoopStep is enabled
LoopStepEnabled == pc = "loop" /\ i <= Len(segments)

\* what the program itself guarantees to do: its own steps, and the expiry of
\* the timeouts it sets; no external service is obliged to answer.  The third
\* conjunct is WF_vars(LoopStep) with ENABLED <<LoopStep>>_vars written out.
Fairness ==
    /\ WF_vars(BeginValidate)
    /\ (<>[]LoopStepEnabled => []<><<LoopStep>>_vars)
    /\ WF_vars(ContextCheckTimeout)
    /\ WF_vars(RecheckTimeout)
    /\ WF_vars(CorrectTimeout)
    /\ WF_vars(FinishRun)

FairSpec == Spec /\ Fairness

(***************************************************************************)
(* Deduplication applied to bounded inputs, once and then to its output    *)
(***************************************************************************)

MaxDedupSegs == 3

\* texts as the pipeline hands them over: stripped; some contain others, two
\* have more than three words and the same first three

DedupTexts ==
    { <<>>, <<"a">>, <<"b">>, <<"a", "b">>,
      <<"a", " ", "a", " ", "a", " ", "a">>,
      <<"a", " ", "a", " ", "a", " ", "a", " ", "b">> }

DedupRanges == { <<0, 3>>, <<3, 6>>, <<0, 9>>, <<6, 9>> }

PipeIdle ==
    /\ roster = NoRoster
    /\ use_multipass = FALSE
    /\ segments = <<>>
    /\ low_confidence_indices = <<>>
    /\ i = 0
    /\ pc = "idle"
    /\ text = NoText
    /\ context = NoText
    /\ retranscribed_data = NoData
    /\ orig = <<>>
    /\ written = <<>>
    /\ order = <<>>
    /\ normalized = {}
    /\ GhostIdle

DedupInit == PipeIdle /\ DedupIdle /\ UnitIdle

\* the caller's list grows by one segment, in any order of start times
DedupAddSegment ==
    /\ dd_passes = 0
    /\ Len(dd_input) < MaxDedupSegs
    /\ \E t \in DedupTexts, r \in DedupRanges :
          dd_input' = Append(dd_input,
                             Segment(Len(dd_input) + 1, t, r[1], r[2], NoNumber))
    /\ dd_segments' = dd_input'
    /\ UNCHANGED <<dd_first, dd_passes, pipeVars, unitVars>>

\* process_audio step 7
Deduplicate ==
    /\ dd_passes = 0
    /\ dd_segments' = _deduplicate_segments(dd_segments)
    /\ dd_first' = dd_segments'
    /\ dd_passes' = 1
    /\ UNCHANGED <<dd_input, pipeVars, unitVars>>

\* the pass applied to its own output
DeduplicateAgain ==
    /\ dd_passes = 1
    /\ dd_segments' = _deduplicate_segments(dd_segments)
    /\ dd_passes' = 2
    /\ UNCHANGED <<dd_input, dd_first, pipeVars, unitVars>>

DedupNext == DedupAddSegment \/ Deduplicate \/ DeduplicateAgain

DedupSpec == DedupInit /\ [][DedupNext]_vars

(***************************************************************************)
(* The helper functions applied on their own to bounded arguments          *)
(***************************************************************************)

\* the longest list handed to a helper function
MaxUnitLen == 3

\* confidences of the segments handed to identify_low_confidence_segments:
\* absent, and below, at and above the thresholds
UnitConfidences == {NoNumber, 0, 50, 70, 90}

UnitThresholds == {50, 70}

\* sorted(segments) of group_adjacent_segments: insertion of x into a sorted
\* list of integers
RECURSIVE InsertInt(_, _)
InsertInt(sorted, x) ==
    IF sorted = <<>> THEN <<x>>
    ELSE IF sorted[Len(sorted)] <= x THEN Append(sorted, x)
    ELSE Append(InsertInt(SubSeq(sorted, 1, Len(sorted) - 1), x),
                sorted[Len(sorted)])

\* the list taken as it comes
Unsorted(indices) == indices

RECURSIVE Sorted(_)
Sorted(indices) ==
    IF indices = <<>> THEN <<>>
    ELSE InsertInt(Sorted(SubSeq(indices, 1, Len(indices) - 1)),
                   indices[Len(indices)])

\* the loop of group_adjacent_segments over sorted_segments from position k
\* (Python's i = k - 1), with the groups closed so far and the open one
RECURSIVE GroupFrom(_, _, _, _)
GroupFrom(sorted_segments, k, groups, current_group) ==
    IF k > Len(sorted_segments) THEN Append(groups, current_group)
    ELSE LET current_idx == sorted_segments[k]
             previous_idx == sorted_segments[k - 1]
         IN IF current_idx = previous_idx + 1
            THEN GroupFrom(sorted_segments, k + 1, groups,
                           Append(current_group, current_idx))
            ELSE GroupFrom(sorted_segments, k + 1,
                           Append(groups, current_group), <<current_idx>>)

group_adjacent_segments(indices) ==
    IF indices = <<>> THEN <<>>
    ELSE LET sorted_segments == Sorted(indices)
         IN GroupFrom(sorted_segments, 2, <<>>, <<sorted_segments[1]>>)

\* the indices handed to group_adjacent_segments: 0..MaxUnitLen + 1
UnitIndices == 0..(MaxUnitLen + 1)

\* lists of distinct indices, in any order
UnitIndexLists ==
    {l \in UNION {[1..n -> UnitIndices] : n \in 0..(MaxUnitLen + 1)} :
        \A a, b \in 1..Len(l) : a # b => l[a] # l[b]}

\* ContextWindowManager(window_size, overlap): the constructor asks for
\* overlap < window_size and nothing else; window_size is taken from 0 up and
\* overlap from MinOverlap up
UnitWindowSizes == 0..(MaxUnitLen + 1)

MinOverlap == -2

UnitManagers ==
    {<<ws, overlap>> \in UnitWindowSizes \X (MinOverlap..MaxUnitLen) : overlap < ws}

UnitConfLists == UNION {[1..n -> UnitConfidences] : n \in 0..MaxUnitLen}

CallIdentifyLowConfidence ==
    /\ u_op = "none"
    /\ \E cl \in UnitConfLists, t \in UnitThresholds :
          LET segs == [k \in 1..Len(cl) |-> Segment(k, <<>>, k - 1, k, cl[k])]
          IN /\ u_op' = "identify_low_confidence_segments"
             /\ u_in' = [segments |-> segs, threshold |-> t]
             /\ u_out' = identify_low_confidence_segments(segs, t)
    /\ UNCHANGED <<pipeVars, ddVars>>

CallGroupAdjacent ==
    /\ u_op = "none"
    /\ \E l \in UnitIndexLists :
          /\ u_op' = "group_adjacent_segments"
          /\ u_in' = [segments |-> l]
          /\ u_out' = group_adjacent_segments(l)
    /\ UNCHANGED <<pipeVars, ddVars>>

\* the characters of the texts and names handed to the roster here
UnitChars == {"a", "b", " "}

MaxTextLen == 7

RECURSIVE StringsUpTo(_, _)
StringsUpTo(chars, n) ==
    IF n = 0 THEN {<<>>}
    ELSE LET shorter == StringsUpTo(chars, n - 1)
         IN shorter \cup {Append(t, c) : t \in {x \in shorter : Len(x) = n - 1},
                                          c \in chars}

UnitTexts == StringsUpTo(UnitChars, MaxTextLen)

MaxNameLen == 4

\* the names find_closest_match is asked about: some capitalised, some padded
UnitNames == StringsUpTo(UnitChars \cup {"A", "B"}, MaxNameLen)

\* two rosters as load_from_file leaves them: one with a character and a
\* player at the same distance from some words, one with a name of two words
UnitRosters ==
    { [characters |-> << <<"A", "a", "b">> >>,
       player_names |-> << <<"A", "b", "b">> >>, present |-> TRUE],
      [characters |-> << <<"a", " ", "a", "b", "b">> >>,
       player_names |-> <<>>, present |-> TRUE] }

CallCorrectNames ==
    /\ u_op = "none"
    /\ \E r \in UnitRosters, t \in UnitTexts :
          /\ u_op' = "correct_names_in_text"
          /\ u_in' = [roster |-> r, text |-> t]
          /\ u_out' = correct_names_in_text(r, t)
    /\ UNCHANGED <<pipeVars, ddVars>>

CallFindClosestMatch ==
    /\ u_op = "none"
    /\ \E r \in UnitRosters, n \in UnitNames :
          /\ u_op' = "find_closest_match"
          /\ u_in' = [roster |-> r, name |-> n]
          /\ u_out' = find_closest_match(r, n)
    /\ UNCHANGED <<pipeVars, ddVars>>

MaxContextSegs == 6

\* the loop body of _validate_segments up to the two slices, for segment k of
\* n: the manager's window of k and what the caps leave of it
CallBuildContext ==
    /\ u_op = "none"
    /\ \E n \in 1..MaxContextSegs :
          \E k \in 1..n :
             LET windows == create_windows([m \in 1..n |-> m], window_size)
             IN /\ u_op' = "build_context"
                /\ u_in' = [n |-> n, k |-> k, window |-> windows[k]]
                /\ u_out' = [before |-> LastN(context_before(n, k), BeforeCap),
                              after |-> Take(context_after(n, k), AfterCap)]
    /\ UNCHANGED <<pipeVars, ddVars>>

MaxEditLen == 4

\* the strings _edit_distance is applied to
EditStrings == StringsUpTo({"a", "b"}, MaxEditLen)

CallEditDistance ==
    /\ u_op = "none"
    /\ \E s1 \in EditStrings, s2 \in EditStrings :
          /\ u_op' = "_edit_distance"
          /\ u_in' = [s1 |-> s1, s2 |-> s2]
          /\ u_out' = [forward |-> _edit_distance(s1, s2),
                        backward |-> _edit_distance(s2, s1)]
    /\ UNCHANGED <<pipeVars, ddVars>>

CallCreateWindows ==
    /\ u_op = "none"
    /\ \E l \in UnitIndexLists, m \in UnitManagers :
          /\ u_op' = "create_windows"
          /\ u_in' = [segments |-> l, window_size |-> m[1], overlap |-> m[2]]
          /\ u_out' = create_windows(l, m[1])
    /\ UNCHANGED <<pipeVars, ddVars>>

CallCreateOverlappingWindows ==
    /\ u_op = "none"
    /\ \E l \in UnitIndexLists, m \in UnitManagers :
          /\ u_op' = "create_overlapping_windows"
          /\ u_in' = [segments |-> l, window_size |-> m[1], overlap |-> m[2]]
          /\ u_out' = create_overlapping_windows(l, m[1], m[2])
    /\ UNCHANGED <<pipeVars, ddVars>>

UnitInit == PipeIdle /\ DedupIdle /\ UnitIdle

UnitNext ==
    \/ CallIdentifyLowConfidence
    \/ CallGroupAdjacent
    \/ CallCreateWindows
    \/ CallCreateOverlappingWindows
    \/ CallCorrectNames
    \/ CallFindClosestMatch
    \/ CallBuildContext
    \/ CallEditDistance

UnitSpec == UnitInit /\ [][UnitNext]_vars

(***************************************************************************)
(* Properties of the repair of one segment                                 *)
(***************************************************************************)

\* the position the latest validate_segment call was made for
LatestSeg == order[Len(order)]

\* the latest validate_segment call has returned
Completed == g_returned # NoText

Called(op) == \E k \in 1..Len(g_calls) : g_calls[k].op = op

\* the name-corrected form of an incoming text
NameCorrected(t) == IF roster.present THEN correct_names_in_text(roster, t) ELSE t

AllFitsTrue == \A k \in 1..Len(g_answers) : g_answers[k] = "True"

NoRepairDone ==
    /\ g_returned = NameCorrected(g_input)
    /\ segments[LatestSeg].text = NameCorrected(g_input)
    /\ ~Called("transcribe_span")
    /\ ~Called("correct")

\* C1 as claimed: whenever a repaired segment's ask_fits calls all returned
\* true, the text written back is the name-corrected input and neither
\* retranscription nor LLM correction was called.  Fails: with an empty context
\* no ask_fits call is made at all and the correction call follows.
C1_FitsAlwaysTrue_NoRepair == Completed /\ AllFitsTrue => NoRepairDone

\* C1 amended: the same for every repaired segment whose context text is not
\* empty (so that ask_fits is asked).
C1_FitsAlwaysTrue_NoRepair_WithContext ==
    Completed /\ g_context # <<>> /\ AllFitsTrue => NoRepairDone

\* a segment came back from one ask_fits call answered true, its name corrected
C1_Witness ==
    /\ Completed
    /\ g_context # <<>>
    /\ g_answers = <<"True">>
    /\ g_returned # g_input

\* the confidence the segment had when its repair began
OrigConfidence == orig[LatestSeg].confidence

\* a retranscription candidate that differs from the current text was obtained
HasCandidate == g_data # NoData /\ g_data.text # NameCorrected(g_input)

\* the candidate replaced the current text
CandidateAccepted ==
    /\ Completed
    /\ HasCandidate
    /\ g_returned = g_data.text
    /\ ~Called("correct")

RecheckAnswer == IF Len(g_answers) = 2 THEN g_answers[2] ELSE "none"

\* the candidate's average confidence exceeds the original by more than 0.05
CandidateExceeds ==
    /\ OrigConfidence # NoNumber
    /\ Len(g_data.confidences) > 0
    /\ SumConf(g_data.confidences) > (OrigConfidence + 5) * Len(g_data.confidences)

\* the candidate was dropped and LLM correction entered on the current text
FellThroughToCorrection ==
    /\ ~CandidateAccepted
    /\ Called("correct")
    /\ g_calls[Len(g_calls)] = [op |-> "correct", text |-> NameCorrected(g_input)]

\* C2 as claimed: a candidate replaces the current text only if the re-check
\* says it fits or its confidence exceeds the original by more than 0.05;
\* otherwise it is dropped and LLM correction entered on the current text.
\* Fails: with no original confidence every candidate is accepted.
C2_CandidateAcceptance ==
    /\ CandidateAccepted => RecheckAnswer = "True" \/ CandidateExceeds
    /\ HasCandidate /\ RecheckAnswer = "False" /\ ~CandidateExceeds
         => FellThroughToCorrection

\* C2 amended: (b) reads "the original confidence is absent, or the candidate's
\* confidence exceeds it by more than 0.05".
C2_CandidateAcceptance_AbsentCounts ==
    /\ CandidateAccepted =>
         RecheckAnswer = "True" \/ OrigConfidence = NoNumber \/ CandidateExceeds
    /\ HasCandidate /\ RecheckAnswer = "False" /\ OrigConfidence # NoNumber
                    /\ ~CandidateExceeds
         => FellThroughToCorrection

\* a candidate that did not fit was accepted on its confidence alone
C2_Witness ==
    /\ CandidateAccepted
    /\ RecheckAnswer = "False"
    /\ CandidateExceeds

\* C3 as claimed: whatever an external call does, validate_segment returns a
\* text and never raises.  Fails: a 200 answer whose "response" is not a string
\* (or whose body is not an object) raises AttributeError, which is not caught.
C3_ValidateNeverRaises == pc # "raised"

\* C4 as claimed: under any behaviour of the external services the repair loop
\* is eventually left (here even counting an escaped exception as leaving it).
\* Fails: retranscribe_segment has no timeout, so a call that never returns
\* keeps the run in the repair of one segment for ever.
C4_RepairLoopIsLeft == <>(pc \in {"done", "raised"})

\* the texts the claim expects the context of position k to be built from
TextsAtThatMoment(k) ==
    [m \in 1..Len(orig) |->
        IF m < k /\ written[m] # NoText THEN written[m] ELSE orig[m].text]

\* C5: segments are repaired one at a time in ascending order, and the context
\* handed to the repair of a segment is built from the written-back texts of its
\* earlier neighbours and the not yet repaired texts of its later ones.
C5_OrderedRepairWithCurrentContext ==
    /\ \A a, b \in 1..Len(order) : a < b => order[a] < order[b]
    /\ \A a \in 1..Len(order) :
          written[order[a]] = NoText => a = Len(order) /\ ~Completed
    /\ g_context # NoText =>
          g_context = Strip(ContextText(TextsAtThatMoment(LatestSeg), LatestSeg))

\* the second of three segments is under repair after the first one's text
\* was changed by its own repair
C5_Witness ==
    /\ Len(orig) = 3
    /\ g_context # NoText
    /\ LatestSeg = 2
    /\ written[1] # NoText
    /\ written[1] # orig[1].text

\* _validate_segments has finished its loop
LoopDone == pc = "loop" /\ i > Len(segments)

\* C10 as claimed: with a roster, the Name Normalizer is applied to the text
\* of every segment.  Fails: it runs inside validate_segment only.
C10_NormalizerOnEverySegment ==
    LoopDone /\ roster.present => normalized = 1..Len(segments)

\* needs_repair, on the segment as it entered the loop
NeedsRepair(k) ==
    \/ orig[k].confidence # NoNumber /\ orig[k].confidence < 70
    \/ /\ roster.present
       /\ \E w \in 1..Len(Split(orig[k].text)) :
             Len(Split(orig[k].text)[w]) > 2 /\ IsUpper(Split(orig[k].text)[w][1])

\* C10 amended: with a roster, the Name Normalizer is applied to the text of
\* exactly the segments for which needs_repair is true and whose text is not
\* blank.
C10_NormalizerOnRepairedSegments ==
    LoopDone /\ roster.present =>
        normalized = {k \in 1..Len(orig) :
                        NeedsRepair(k) /\ Strip(orig[k].text) # <<>>}

\* a run with a roster ended with some segment normalized and another, which
\* the normalizer would have changed, left as it was
C10_Witness ==
    /\ LoopDone
    /\ roster.present
    /\ normalized # {}
    /\ \E k \in 1..Len(segments) :
          /\ k \notin normalized
          /\ correct_names_in_text(roster, segments[k].text) # segments[k].text

\* the positions validate_segment has been entered for
Entered == {order[a] : a \in 1..Len(order)}

\* C11: validate_segment, and with it any external call, is entered for
\* exactly the segments flagged low-confidence or, with a roster, holding a
\* capitalised token of more than 2 characters: never for another segment, and
\* for each of these once the loop has reached it.
C11_EnteredIffNeedsRepair ==
    /\ \A k \in Entered : NeedsRepair(k)
    /\ \A k \in 1..Len(orig) : k < i /\ NeedsRepair(k) => k \in Entered

\* a run without a roster went past a capitalised segment of good confidence
\* and repaired a low-confidence one
C11_Witness ==
    /\ LoopDone
    /\ ~roster.present
    /\ Entered # {}
    /\ \E k \in 1..Len(orig) :
          /\ k \notin Entered
          /\ Len(orig[k].text) > 2
          /\ IsUpper(orig[k].text[1])

\* the external call number c of the latest validate_segment call is over
Ended(c, op, how) ==
    /\ c >= 1
    /\ c <= Len(g_ended)
    /\ g_calls[c].op = op
    /\ g_ended[c] = how

\* C12 as claimed: an ask_fits call at ContextCheck that failed counts as
\* "does not fit": the segment is not accepted there and the orchestrator has
\* gone on to retranscription or LLM correction.  Fails: a malformed answer
\* (C3) raises out of validate_segment instead.
C12_FailedFitMeansDoesNotFit ==
    Ended(1, "ask_fits", "failed") =>
        /\ g_answers # <<>>
        /\ g_answers[1] = "False"
        /\ Len(g_calls) >= 2
        /\ g_calls[2].op \in {"transcribe_span", "correct"}

\* C13: when the correct call fails in transport, times out, gets a bad
\* status or brings only blank text, validate_segment returns the text it
\* submitted, the name-corrected current text; this is written back to the
\* segment and the loop goes on to the next one.
C13_FailedCorrectionKeepsText ==
    \A c \in 1..Len(g_ended) :
       Ended(c, "correct", "failed_or_empty") =>
          /\ c = Len(g_calls)
          /\ g_returned = g_calls[c].text
          /\ g_returned = NameCorrected(g_input)
          /\ written[LatestSeg] = g_returned
          /\ segments[LatestSeg].text = g_returned
          /\ pc = "loop"
          /\ i = LatestSeg + 1

\* a correction failed after a rejected retranscription candidate, and the
\* name-corrected text, which differs from the input, was written back
C13_Witness ==
    /\ Ended(Len(g_calls), "correct", "failed_or_empty")
    /\ Called("transcribe_span")
    /\ g_data.text # NameCorrected(g_input)
    /\ g_returned # g_input
    /\ g_returned = NameCorrected(g_input)

\* C14: when retranscribe_segment raises or brings no segments or only blank
\* text, no candidate is considered: the current text goes to LLM correction
\* with no re-check; without use_multipass (no audio path, no times) the
\* retranscription is not called at all and a text that does not fit goes
\* straight to LLM correction.
C14_NoCandidateWhenUnavailable ==
    /\ \A c \in 1..Len(g_ended) :
          Ended(c, "transcribe_span", "unavailable") =>
             /\ g_data.text = NameCorrected(g_input)
             /\ Len(g_calls) > c
             /\ g_calls[c + 1] = [op |-> "correct", text |-> NameCorrected(g_input)]
             /\ \A d \in (c + 1)..Len(g_calls) : g_calls[d].op # "ask_fits"
    /\ ~use_multipass =>
          /\ ~Called("transcribe_span")
          /\ Ended(1, "ask_fits", "answered") /\ g_answers = <<"False">> =>
                g_calls[2] = [op |-> "correct", text |-> NameCorrected(g_input)]

\* a retranscription that was unavailable was followed by a correction that
\* brought a text, and the loop went on
C14_Witness ==
    /\ Ended(2, "transcribe_span", "unavailable")
    /\ Ended(3, "correct", "text")
    /\ Completed
    /\ pc = "loop"

\* the number of calls of op in the latest validate_segment call
CallCount(op) == Cardinality({c \in 1..Len(g_calls) : g_calls[c].op = op})

\* the place of call c in the order ask_fits(current text), transcribe_span,
\* ask_fits(candidate), correct
Stage(c) ==
    CASE g_calls[c].op = "ask_fits"
           /\ g_calls[c].text = NameCorrected(g_input)
           /\ \A d \in 1..(c - 1) : g_calls[d].op # "transcribe_span" -> 1
      [] g_calls[c].op = "transcribe_span" -> 2
      [] g_calls[c].op = "ask_fits"
           /\ (\E d \in 1..(c - 1) : g_calls[d].op = "transcribe_span")
           /\ (g_data # NoData => g_calls[c].text = g_data.text) -> 3
      [] g_calls[c].op = "correct" -> 4
      [] OTHER -> 0

\* C22: the external calls of one repaired segment come in the order
\* ask_fits(current text), transcribe_span, ask_fits(candidate), correct;
\* transcribe_span only follows an ask_fits that returned "does not fit" for
\* the current text; correct follows neither a "fits" for the current text nor
\* an accepted candidate; at most two ask_fits, one transcribe_span and one
\* correct call are made.
C22_CallsInFixedOrder ==
    /\ \A c \in 1..Len(g_calls) : Stage(c) # 0
    /\ \A c, d \in 1..Len(g_calls) : c < d => Stage(c) < Stage(d)
    /\ CallCount("ask_fits") <= 2
    /\ CallCount("transcribe_span") <= 1
    /\ CallCount("correct") <= 1
    /\ \A c \in 1..Len(g_calls) :
          g_calls[c].op = "transcribe_span" =>
             /\ c = 2
             /\ Stage(1) = 1
             /\ g_answers[1] = "False"
    /\ \A c \in 1..Len(g_calls) :
          g_calls[c].op = "correct" =>
             /\ Stage(1) = 1 => g_answers[1] = "False"
             /\ Len(g_answers) = 2 =>
                   g_answers[2] = "False" /\ ~g_data.confidence_improved
    /\ g_answers # <<>> /\ g_answers[1] = "True" => Completed /\ Len(g_calls) = 1

\* all four calls were made for one segment
C22_Witness ==
    /\ Len(g_calls) = 4
    /\ Stage(1) = 1 /\ Stage(2) = 2 /\ Stage(3) = 3 /\ Stage(4) = 4
    /\ Completed

\* the texts of positions a..b, each followed by a space except the last
RECURSIVE SpacedTexts(_, _, _)
SpacedTexts(texts, a, b) ==
    IF a > b THEN <<>>
    ELSE IF a = b THEN texts[a]
    ELSE texts[a] \o <<" ">> \o SpacedTexts(texts, a + 1, b)

\* positions k-2..k-1 and k+1..k+2 within 1..n: the windows of the pipeline's
\* manager, already within the caps of 10 and 2; the texts of those
\* positions, oldest to newest, joined by single spaces
NeighbourTexts(texts, k) ==
    LET first == IF k - 2 < 1 THEN 1 ELSE k - 2
        last == IF k + 2 > Len(texts) THEN Len(texts) ELSE k + 2
        others == [m \in 1..(last - first) |->
                     IF first + m - 1 < k THEN texts[first + m - 1] ELSE texts[first + m]]
    IN SpacedTexts(others, 1, Len(others))

\* C23 as claimed: the context text handed to the repair of a segment is the
\* texts of the last (up to 10) segments of its before-window followed by those
\* of the first (up to 2) of its after-window, joined by single spaces.  Fails:
\* the joined text is stripped before it is handed over, so an empty text at
\* either end of the neighbours leaves no space behind.
C23_ContextIsJoinedNeighbours ==
    g_context # NoText =>
       g_context = NeighbourTexts(TextsAtThatMoment(LatestSeg), LatestSeg)

\* C23 amended: the context text is that joined text without its leading and
\* trailing whitespace.
C23_ContextIsJoinedNeighbours_Stripped ==
    g_context # NoText =>
       g_context = Strip(NeighbourTexts(TextsAtThatMoment(LatestSeg), LatestSeg))

\* the second of three segments is repaired with the texts of both its
\* neighbours, a space between them, as its context
C23_Witness ==
    /\ Len(orig) = 3
    /\ g_context # NoText
    /\ LatestSeg = 2
    /\ segments[1].text # <<>>
    /\ segments[3].text # <<>>
    /\ g_context = segments[1].text \o <<" ">> \o segments[3].text

\* C24: _validate_segments hands back the segments it was given, as many and
\* in the same order; only their text may differ (speaker, times and
\* confidence are as they were, also after an accepted retranscription), and
\* a segment for which needs_repair is false is as it was.
C24_OnlyTextOfRepairedChanges ==
    orig # <<>> /\ pc # "done" =>
       /\ Len(segments) = Len(orig)
       /\ \A k \in 1..Len(orig) :
             /\ segments[k].id = orig[k].id
             /\ segments[k].speaker = orig[k].speaker
             /\ segments[k].start_time = orig[k].start_time
             /\ segments[k].end_time = orig[k].end_time
             /\ segments[k].confidence = orig[k].confidence
             /\ ~NeedsRepair(k) => segments[k] = orig[k]

\* the loop is over; one segment took the text of an accepted retranscription,
\* another needed no repair
C24_Witness ==
    /\ LoopDone
    /\ CandidateAccepted
    /\ segments[LatestSeg].text = g_data.text
    /\ segments[LatestSeg].text # orig[LatestSeg].text
    /\ \E m \in 1..Len(orig) : ~NeedsRepair(m)

\* the latest validate_segment call made no ask_fits and no transcribe_span call
NoFitNoTranscribe == ~Called("ask_fits") /\ ~Called("transcribe_span")

\* its first external call was the correction of the name-corrected text
CorrectionFirst ==
    /\ g_calls # <<>>
    /\ g_calls[1] = [op |-> "correct", text |-> NameCorrected(g_input)]

\* C25 as claimed: a segment repaired with an empty context text gets no
\* ask_fits and no transcribe_span call, also when audio, timing and a
\* transcriber are there, and goes from name correction straight to the
\* correction call.  Fails: a segment whose own text is blank is returned
\* before name correction and no call is made for it.
C25_EmptyContextGoesToCorrection ==
    g_context = <<>> => NoFitNoTranscribe /\ CorrectionFirst

\* C25 amended: the correction call is made when the segment's own text is
\* not blank.
C25_EmptyContextGoesToCorrection_TextNotBlank ==
    g_context = <<>> =>
       /\ NoFitNoTranscribe
       /\ Strip(g_input) # <<>> => CorrectionFirst

\* a segment among blank neighbours, with retranscription available, was
\* corrected without any other call
C25_Witness ==
    /\ g_context = <<>>
    /\ Len(orig) = 3
    /\ CanRetranscribe(LatestSeg)
    /\ Completed
    /\ Len(g_calls) = 1
    /\ CorrectionFirst
    /\ normalized # {}

\* the texts the correction call can bring, as gathered and stripped
CorrectionTexts == {Strip(t) : t \in NewTexts} \ {<<>>}

\* the latest validate_segment call wrote back what its calls brought: the
\* candidate after a re-check that said "fits", the correction's text after a
\* correction that brought one
AdoptedAsReturned ==
    /\ Completed /\ Len(g_answers) = 2 /\ g_answers[2] = "True"
          => g_returned = g_data.text /\ segments[LatestSeg].text = g_data.text
    /\ Completed /\ g_calls # <<>> /\ Ended(Len(g_calls), "correct", "text")
          => g_returned \in CorrectionTexts /\ segments[LatestSeg].text = g_returned

\* with a roster, the incoming text went through the Name Normalizer before
\* the first external call
NormalizedFirst ==
    /\ LatestSeg \in normalized
    /\ g_calls # <<>>
    /\ g_calls[1].text = correct_names_in_text(roster, g_input)
    /\ \A c \in 1..Len(g_calls) :
          g_calls[c].op \in {"transcribe_span", "correct"} =>
             g_calls[c].text = correct_names_in_text(roster, g_input)

\* C26 as claimed: the Name Normalizer runs once for every repaired segment,
\* on the incoming text and before any external call; a text taken from an
\* accepted candidate or from the correction is written back as it came.
\* Fails: a repaired segment whose text is blank is returned before the
\* Name Normalizer is reached.
C26_NormalizedOnceOnTheWayIn ==
    /\ roster.present /\ g_input # NoText => NormalizedFirst
    /\ AdoptedAsReturned

\* C26 amended: the same for repaired segments whose text is not blank.
C26_NormalizedOnceOnTheWayIn_TextNotBlank ==
    /\ roster.present /\ g_input # NoText /\ Strip(g_input) # <<>> => NormalizedFirst
    /\ roster.present /\ g_input # NoText /\ Strip(g_input) = <<>>
          => LatestSeg \notin normalized
    /\ AdoptedAsReturned

\* with a roster, a correction brought a text the Name Normalizer would
\* change, and it was written back unchanged
C26_Witness ==
    /\ roster.present
    /\ Completed
    /\ Ended(Len(g_calls), "correct", "text")
    /\ g_returned # g_input
    /\ segments[LatestSeg].text = g_returned
    /\ correct_names_in_text(roster, g_returned) # g_returned

(***************************************************************************)
(* Properties of the helper functions                                      *)
(***************************************************************************)

\* C15: identify_low_confidence_segments returns, in ascending order and
\* each once, exactly the positions whose confidence is present and strictly
\* below the threshold.
C15_LowConfidenceExactlyBelowThreshold ==
    u_op = "identify_low_confidence_segments" =>
       /\ \A a, b \in 1..Len(u_out) : a < b => u_out[a] < u_out[b]
       /\ {u_out[a] : a \in 1..Len(u_out)} =
             {k \in 1..Len(u_in.segments) :
                 /\ u_in.segments[k].confidence # NoNumber
                 /\ u_in.segments[k].confidence < u_in.threshold}

\* a list with a confidence absent, one at the threshold and one below it,
\* of which only the last is returned
C15_Witness ==
    /\ u_op = "identify_low_confidence_segments"
    /\ Len(u_in.segments) = 3
    /\ u_in.segments[1].confidence = NoNumber
    /\ u_in.segments[2].confidence = u_in.threshold
    /\ u_in.segments[3].confidence < u_in.threshold
    /\ u_out = <<3>>

RECURSIVE Flatten(_)
Flatten(runs) == IF runs = <<>> THEN <<>> ELSE Head(runs) \o Flatten(Tail(runs))

\* C16: group_adjacent_segments returns non-empty runs of consecutive
\* integers whose concatenation is the input in ascending order, no run
\* continuing the one before it; the empty list gives no runs.
C16_GroupsAreMaximalRuns ==
    u_op = "group_adjacent_segments" =>
       LET flat == Flatten(u_out)
       IN /\ u_in.segments = <<>> => u_out = <<>>
          /\ Len(flat) = Len(u_in.segments)
          /\ {flat[a] : a \in 1..Len(flat)} =
                {u_in.segments[a] : a \in 1..Len(u_in.segments)}
          /\ \A a \in 1..(Len(flat) - 1) : flat[a] < flat[a + 1]
          /\ \A r \in 1..Len(u_out) :
                /\ u_out[r] # <<>>
                /\ \A a \in 1..(Len(u_out[r]) - 1) :
                      u_out[r][a + 1] = u_out[r][a] + 1
          /\ \A r \in 1..(Len(u_out) - 1) :
                u_out[r][Len(u_out[r])] + 1 # u_out[r + 1][1]

\* indices given out of order that make a run of two and a run of one
C16_Witness ==
    /\ u_op = "group_adjacent_segments"
    /\ Len(u_in.segments) = 3
    /\ u_in.segments[1] > u_in.segments[2]
    /\ Len(u_out) = 2
    /\ Len(u_out[1]) = 2

\* C17: create_windows returns one window per segment, in order; the window
\* of position p (from 0) has the segments of positions
\* max(0, p - window_size div 2) to p - 1 before and those of positions p + 1
\* to min(len, p + 1 + window_size div 2) - 1 after, each in their order and
\* neither holding the focus; no segments, no windows.
C17_WindowsAroundEachSegment ==
    u_op = "create_windows" =>
       LET segs == u_in.segments
           half == u_in.window_size \div 2
       IN /\ Len(u_out) = Len(segs)
          /\ segs = <<>> => u_out = <<>>
          /\ \A k \in 1..Len(segs) :
                LET w == u_out[k]
                    nb == IF k - 1 < half THEN k - 1 ELSE half
                    na == IF Len(segs) - k < half THEN Len(segs) - k ELSE half
                IN /\ w.focus = segs[k]
                   /\ Len(w.before) = nb
                   /\ \A m \in 1..nb : w.before[m] = segs[k - nb + m - 1]
                   /\ Len(w.after) = na
                   /\ \A m \in 1..na : w.after[m] = segs[k + m]
                   /\ \A m \in 1..nb : w.before[m] # w.focus
                   /\ \A m \in 1..na : w.after[m] # w.focus

\* four segments and window_size 2: the window of the second has one segment
\* before and one after, that of the last has none after
C17_Witness ==
    /\ u_op = "create_windows"
    /\ Len(u_in.segments) = 4
    /\ u_in.window_size = 2
    /\ Len(u_out[2].before) = 1
    /\ Len(u_out[2].after) = 1
    /\ u_out[4].after = <<>>

\* the chunks the claim lists for stride s: k = 0, 1, ... up to the first one
\* whose end reaches the end of the list
ChunksUpToEnd(segs, ws, s) ==
    LET last == CHOOSE k \in 0..Len(segs) :
                   /\ k * s + ws >= Len(segs)
                   /\ \A j \in 0..(k - 1) : j * s + ws < Len(segs)
    IN [k \in 1..(last + 1) |-> PySlice(segs, (k - 1) * s, (k - 1) * s + ws)]

\* C18 as claimed: for a non-empty list and window_size >= 1,
\* create_overlapping_windows returns the chunks of stride
\* window_size - overlap up to and including the first that reaches the end
\* of the list, none of them empty.  Fails: with a negative overlap the stride
\* is larger than the window and the loop can run out before a chunk reaches
\* the end.
C18_ChunksReachTheEnd ==
    u_op = "create_overlapping_windows" /\ u_in.segments # <<>>
                                        /\ u_in.window_size >= 1 =>
       /\ u_out = ChunksUpToEnd(u_in.segments, u_in.window_size,
                                u_in.window_size - u_in.overlap)
       /\ \A c \in 1..Len(u_out) : u_out[c] # <<>>

\* C18 amended: the same for 0 <= overlap < window_size.
C18_ChunksReachTheEnd_OverlapNotNegative ==
    u_op = "create_overlapping_windows" /\ u_in.segments # <<>>
                                        /\ u_in.window_size >= 1
                                        /\ u_in.overlap >= 0 =>
       /\ u_out = ChunksUpToEnd(u_in.segments, u_in.window_size,
                                u_in.window_size - u_in.overlap)
       /\ \A c \in 1..Len(u_out) : u_out[c] # <<>>

\* four segments in chunks of three with overlap one: two chunks, the second
\* cut short by the end of the list
C18_Witness ==
    /\ u_op = "create_overlapping_windows"
    /\ Len(u_in.segments) = 4
    /\ u_in.window_size = 3
    /\ u_in.overlap = 1
    /\ Len(u_out) = 2
    /\ Len(u_out[2]) = 2

\* whether a can be turned into b by at most d insertions, deletions and
\* substitutions of one character
RECURSIVE WithinEdits(_, _, _)
WithinEdits(a, b, d) ==
    IF d < 0 THEN FALSE
    ELSE IF a = <<>> THEN Len(b) <= d
    ELSE IF b = <<>> THEN Len(a) <= d
    ELSE IF Head(a) = Head(b) THEN WithinEdits(Tail(a), Tail(b), d)
    ELSE \/ WithinEdits(Tail(a), b, d - 1)
         \/ WithinEdits(a, Tail(b), d - 1)
         \/ WithinEdits(Tail(a), Tail(b), d - 1)

\* the case-insensitive edit distance of a and b when it is at most MaxEdits,
\* MaxEdits + 1 when it is more
EditsApart(a, b) ==
    IF \E d \in 0..MaxEdits : WithinEdits(Lower(a), Lower(b), d)
    THEN CHOOSE d \in 0..MaxEdits :
            /\ WithinEdits(Lower(a), Lower(b), d)
            /\ \A e \in 0..(d - 1) : ~WithinEdits(Lower(a), Lower(b), e)
    ELSE MaxEdits + 1

\* the smallest EditsApart(word, name) over the names of the roster
SmallestEdits(ros, word) ==
    LET names == all_names(ros)
    IN CHOOSE d \in 0..(MaxEdits + 1) :
          /\ \A k \in 1..Len(names) : EditsApart(word, names[k]) >= d
          /\ \/ d = MaxEdits + 1
             \/ \E k \in 1..Len(names) : EditsApart(word, names[k]) = d

\* the first name of the roster, characters then players, at the smallest
\* distance from word
ClosestName(ros, word) ==
    LET names == all_names(ros)
        at == {k \in 1..Len(names) : EditsApart(word, names[k]) = SmallestEdits(ros, word)}
    IN names[CHOOSE k \in at : \A m \in at : k <= m]

\* the text the claim describes, token by token from position k on
RECURSIVE TokenwiseCorrected(_, _, _)
TokenwiseCorrected(ros, txt, k) ==
    IF k > Len(txt) THEN <<>>
    ELSE IF IsWordChar(txt[k])
         THEN LET e == WordCharEnd(txt, k)
                  token == SubSeq(txt, k, e - 1)
              IN (IF Len(token) > 2 /\ SmallestEdits(ros, token) \in 1..MaxEdits
                  THEN ClosestName(ros, token)
                  ELSE token) \o TokenwiseCorrected(ros, txt, e)
    ELSE <<txt[k]>> \o TokenwiseCorrected(ros, txt, k + 1)

\* C19: correct_names_in_text replaces every word token of more than two
\* characters that is one or two edits (ignoring case) from its closest roster
\* name by that name, the first in roster order on a tie, and leaves every
\* other token and every character between tokens as it was.
C19_EachCloseTokenReplacedOnce ==
    u_op = "correct_names_in_text" =>
       u_out = TokenwiseCorrected(u_in.roster, u_in.text, 1)

\* C20: find_closest_match returns the roster's spelling of a name it equals
\* ignoring case; otherwise the first roster name at the smallest edit
\* distance when that is at most two; otherwise the name it was given.
C20_ClosestNameOrTheGivenName ==
    u_op = "find_closest_match" =>
       LET names == all_names(u_in.roster)
       IN IF SmallestEdits(u_in.roster, u_in.name) = 0
          THEN \E k \in 1..Len(names) :
                  Lower(names[k]) = Lower(u_in.name) /\ u_out = names[k]
          ELSE IF SmallestEdits(u_in.roster, u_in.name) <= MaxEdits
               THEN u_out = ClosestName(u_in.roster, u_in.name)
               ELSE u_out = u_in.name

\* the first chunk followed by every later chunk without its first n elements
RECURSIVE Stitched(_, _, _)
Stitched(chunks, c, n) ==
    IF c > Len(chunks) THEN <<>>
    ELSE (IF c = 1 THEN chunks[c] ELSE SubSeq(chunks[c], n + 1, Len(chunks[c])))
         \o Stitched(chunks, c + 1, n)

\* C29: for 0 <= overlap < window_size and a non-empty list, consecutive chunks
\* of create_overlapping_windows share exactly overlap segments, and the first
\* chunk followed by every later chunk without its first overlap elements is
\* the list.
C29_ChunksCoverWithOverlap ==
    u_op = "create_overlapping_windows" /\ u_in.segments # <<>>
                                        /\ u_in.overlap >= 0 =>
       /\ Stitched(u_out, 1, u_in.overlap) = u_in.segments
       /\ \A c \in 2..Len(u_out) :
             /\ Len(u_out[c]) > u_in.overlap
             /\ Len(u_out[c - 1]) >= u_in.overlap
             /\ SubSeq(u_out[c], 1, u_in.overlap)
                  = SubSeq(u_out[c - 1], Len(u_out[c - 1]) - u_in.overlap + 1,
                           Len(u_out[c - 1]))

\* four segments in chunks of three that share two
C29_Witness ==
    /\ u_op = "create_overlapping_windows"
    /\ Len(u_in.segments) = 4
    /\ u_in.window_size = 3
    /\ u_in.overlap = 2
    /\ Len(u_out) = 2
    /\ SubSeq(u_out[1], 2, 3) = SubSeq(u_out[2], 1, 2)

\* the least number of insertions, deletions and substitutions of one
\* character that turn a into b
Levenshtein(a, b) ==
    CHOOSE d \in 0..(Len(a) + Len(b)) :
       /\ WithinEdits(a, b, d)
       /\ \A e \in 0..(d - 1) : ~WithinEdits(a, b, e)

\* C30: _edit_distance(s1, s2) is the Levenshtein distance of s1 and s2, and
\* the same as _edit_distance(s2, s1).
C30_EditDistanceIsLevenshtein ==
    u_op = "_edit_distance" =>
       /\ u_out.forward = Levenshtein(u_in.s1, u_in.s2)
       /\ u_out.forward = u_out.backward

\* the shorter string came first: two characters are inserted
C30_Witness ==
    /\ u_op = "_edit_distance"
    /\ u_in.s1 = <<"a", "b">>
    /\ u_in.s2 = <<"b", "a", "b", "b">>
    /\ u_out.forward = 2

\* C27: with the pipeline's window_size of 5 the context of a segment is built
\* from at most 2 segments before it and at most 2 after it, so the cap of 10
\* preceding segments never cuts anything.
C27_TwoEitherSideAtMost ==
    u_op = "build_context" =>
       /\ Len(u_out.before) <= 2
       /\ Len(u_out.after) <= 2
       /\ Len(u_in.window.before) < BeforeCap
       /\ u_out.before = u_in.window.before
       /\ u_out.after = u_in.window.after

\* a segment with three before it and three after it: two of each are used
C27_Witness ==
    /\ u_op = "build_context"
    /\ u_in.k = 4
    /\ u_in.n = 6
    /\ u_out.before = <<2, 3>>
    /\ u_out.after = <<5, 6>>

(***************************************************************************)
(* Properties of deduplication                                             *)
(***************************************************************************)

InOutput(seg) == \E m \in 1..Len(dd_segments) : dd_segments[m].id = seg.id

RangesOverlap(a, b) == a.start_time < b.end_time /\ a.end_time > b.start_time

\* C6 as claimed: deduplicating the output of a deduplication changes nothing.
\* Fails: an entry that replaced a kept one was never compared with the entry
\* kept before it; the second pass makes that comparison.
C6_DedupIdempotent == dd_passes = 2 => dd_segments = dd_first

\* C7 as claimed: the output holds no two entries with the same text and
\* start_time, and no entry whose (non-empty) text is contained in that of
\* another entry overlapping it in time.  Fails: an entry is compared only with
\* the entry kept just before it, and one that replaced a kept entry not even
\* with that.
C7_NoDuplicatesInOutput ==
    dd_passes = 1 =>
      \A a, b \in 1..Len(dd_segments) :
         a # b =>
           /\ ~(/\ dd_segments[a].text = dd_segments[b].text
                /\ dd_segments[a].start_time = dd_segments[b].start_time)
           /\ ~(/\ dd_segments[a].text # <<>>
                /\ IsSubstring(dd_segments[a].text, dd_segments[b].text)
                /\ RangesOverlap(dd_segments[a], dd_segments[b]))

\* C7 amended: no two output entries that are neighbours in the start-time
\* order of the input have the same text, or non-empty texts of which one
\* contains the other while their ranges overlap and they start less than 5 s
\* apart.
C7_NoDuplicatesAmongNeighbours ==
    dd_passes = 1 =>
      LET sorted == SortByStart(dd_input) IN
      \A k \in 1..(Len(sorted) - 1) :
         InOutput(sorted[k]) /\ InOutput(sorted[k + 1]) =>
           LET a == Strip(sorted[k].text)
               b == Strip(sorted[k + 1].text)
           IN /\ a # b
              /\ ~(/\ a # <<>>
                   /\ b # <<>>
                   /\ (IsSubstring(a, b) \/ IsSubstring(b, a))
                   /\ RangesOverlap(sorted[k + 1], sorted[k])
                   /\ Abs(sorted[k + 1].start_time - sorted[k].start_time) < 5)

\* a pass dropped something and kept at least two entries
C7_Witness ==
    /\ dd_passes = 1
    /\ Len(dd_segments) >= 2
    /\ Len(dd_segments) < Len(dd_input)

\* C8: the output of deduplication is in ascending order of start_time.
C8_OutputSortedByStart ==
    dd_passes >= 1 =>
      \A k \in 1..(Len(dd_segments) - 1) :
         dd_segments[k].start_time <= dd_segments[k + 1].start_time

\* an input out of order, of which one entry was replaced by a longer one
\* that starts later, and two entries are left
C8_Witness ==
    /\ dd_passes = 1
    /\ \E a, b \in 1..Len(dd_input) :
          a < b /\ dd_input[a].start_time > dd_input[b].start_time
    /\ Len(dd_segments) = 2
    /\ \E d \in 1..Len(dd_input), o \in 1..Len(dd_segments) :
          /\ ~InOutput(dd_input[d])
          /\ dd_input[d].start_time < dd_segments[o].start_time
          /\ RangesOverlap(dd_segments[o], dd_input[d])
          /\ Len(dd_input[d].text) > 0
          /\ Len(dd_input[d].text) < Len(dd_segments[o].text)
          /\ IsSubstring(dd_input[d].text, dd_segments[o].text)

\* the entries of a two-segment input with texts t1 and t2 that have the longer
\* text, when the two overlap in time and one text is part of the other
LongerOfTwo(t1, t2) ==
    IF /\ Len(dd_input) = 2
       /\ RangesOverlap(dd_input[1], dd_input[2])
       /\ (IsSubstring(t1, t2) \/ IsSubstring(t2, t1))
    THEN {k \in {1, 2} : IF k = 1 THEN Len(t1) > Len(t2) ELSE Len(t2) > Len(t1)}
    ELSE {}

\* C9 as claimed: of two overlapping segments of which one text is a substring
\* of the other, the one with the longer text is in the output.  Fails: when
\* they start 5 s or more apart the containment rule is skipped and the
\* repetition rule may drop the longer one.
C9_LongerTextSurvives ==
    dd_passes = 1 /\ Len(dd_input) = 2
      => \A k \in LongerOfTwo(dd_input[1].text, dd_input[2].text) :
            InOutput(dd_input[k])

\* C9 amended: the same for two segments that start less than 5 s apart.
C9_LongerTextSurvives_NearStarts ==
    dd_passes = 1 /\ Len(dd_input) = 2
                  /\ Abs(dd_input[1].start_time - dd_input[2].start_time) < 5
      => \A k \in LongerOfTwo(Strip(dd_input[1].text), Strip(dd_input[2].text)) :
            InOutput(dd_input[k])

\* the longer text came second and took the place of the shorter one
C9_Witness ==
    /\ dd_passes = 1
    /\ Len(dd_input) = 2
    /\ Abs(dd_input[1].start_time - dd_input[2].start_time) < 5
    /\ LongerOfTwo(Strip(dd_input[1].text), Strip(dd_input[2].text)) = {2}
    /\ dd_input[1].start_time < dd_input[2].start_time
    /\ Len(dd_segments) = 1

\* whether texts a and b have more than three words and the same first three
SameOpening(a, b) ==
    /\ Len(Split(a)) > 3
    /\ Len(Split(b)) > 3
    /\ \A w \in 1..3 : Split(a)[w] = Split(b)[w]

\* the reference scan over the sorted list from position k on; kept is what
\* has been kept so far, and blank_contained tells whether an empty text
\* counts as a substring in rule (2)
RECURSIVE ReferenceScan(_, _, _, _)
ReferenceScan(sorted, k, kept, blank_contained) ==
    IF k > Len(sorted) THEN kept
    ELSE IF kept = <<>> THEN ReferenceScan(sorted, k + 1, <<sorted[k]>>, blank_contained)
    ELSE LET cur == sorted[k]
             prev == kept[Len(kept)]
             contained ==
                /\ RangesOverlap(cur, prev)
                /\ Abs(cur.start_time - prev.start_time) < 5
                /\ (IsSubstring(cur.text, prev.text) \/ IsSubstring(prev.text, cur.text))
                /\ (blank_contained \/ (cur.text # <<>> /\ prev.text # <<>>))
             next ==
                IF cur.text = prev.text THEN kept
                ELSE IF contained
                     THEN IF Len(cur.text) > Len(prev.text)
                          THEN SubSeq(kept, 1, Len(kept) - 1) \o <<cur>>
                          ELSE kept
                ELSE IF SameOpening(cur.text, prev.text) THEN kept
                ELSE Append(kept, cur)
         IN ReferenceScan(sorted, k + 1, next, blank_contained)

\* C21 as claimed: the output of _deduplicate_segments is that of the
\* reference scan over the input sorted by start_time: against the entry kept
\* last, (1) equal text drops the current segment, (2) overlapping ranges,
\* starts less than 5 s apart and one text a substring of the other keep the
\* longer text, (3) more than three words each and the same first three drop
\* the current one, (4) otherwise it is kept.  Fails: an empty text is a
\* substring of every text, but the code applies rule (2) only to two
\* non-empty texts and keeps an empty segment next to an overlapping one.
C21_OutputOfReferenceScan ==
    dd_passes = 1 =>
       dd_segments = ReferenceScan(SortByStart(dd_input), 1, <<>>, TRUE)

\* C21 amended: the same with rule (2) applied only when both texts are
\* non-empty.
C21_OutputOfReferenceScan_NonEmptyTexts ==
    dd_passes = 1 =>
       dd_segments = ReferenceScan(SortByStart(dd_input), 1, <<>>, FALSE)

\* three segments of which the first and the last have the same text and the
\* one between them another: all three are kept
C21_Witness ==
    /\ dd_passes = 1
    /\ Len(dd_input) = 3
    /\ Len(dd_segments) = 3
    /\ dd_segments[1].text = dd_segments[3].text
    /\ dd_segments[1].text # dd_segments[2].text
    /\ dd_segments[1].start_time < dd_segments[2].start_time

\* C28: every entry of the output of _deduplicate_segments is one of the input
\* segments with every field as it was, no input segment is in the output
\* twice, and a non-empty input gives a non-empty output.
C28_OutputIsPartOfInput ==
    dd_passes = 1 =>
       /\ \A m \in 1..Len(dd_segments) :
             \E d \in 1..Len(dd_input) : dd_segments[m] = dd_input[d]
       /\ \A a, b \in 1..Len(dd_segments) :
             a # b => dd_segments[a].id # dd_segments[b].id
       /\ dd_input # <<>> => dd_segments # <<>>

\* a longer text took the place of a shorter one that started earlier, and
\* the entry kept is the later segment, times and all
C28_Witness ==
    /\ dd_passes = 1
    /\ Len(dd_input) = 2
    /\ Len(dd_segments) = 1
    /\ dd_input[1].start_time < dd_input[2].start_time
    /\ dd_input[1].end_time # dd_input[2].end_time
    /\ dd_segments[1] = dd_input[2]

====
